---- MODULE Spec2Model ----
(***************************************************************************)
(* InstanceSegMetric (mmdet3d/evaluation/metrics/instance_seg_metric.py):  *)
(* the constructor, process() and evaluate() of the metric, over the       *)
(* results buffer of the mmeval base metric InstanceSeg.                   *)
(***************************************************************************)
EXTENDS Integers, Sequences, FiniteSets, TLC

\* ------------------------------------------------------------------ bounds
\* longest data_samples sequence handed to one process() call
MaxBatch == 2
\* longest results buffer explored (process() is not called beyond it)
MaxResults == 3

\* ------------------------------------------------------------------ values
\* A field value of a sample.  kind "tensor" is a torch.Tensor (on a device,
\* possibly requiring grad); "hostarr" is an array-like with clone() and
\* numpy() but neither to() nor cpu(); "ndarray" is a numpy array (none of
\* clone/cpu/to/numpy); "NoneType" is a value that is no array at all (Python's
\* None); "error" is an exception raised while converting.
NoneObject == [kind |-> "NoneType", dev |-> "cpu", grad |-> FALSE, data |-> 0, exc |-> "None"]
Tensor(dev, grad, d) == [kind |-> "tensor", dev |-> dev, grad |-> grad, data |-> d, exc |-> "None"]
HostArr(d) == [kind |-> "hostarr", dev |-> "cpu", grad |-> FALSE, data |-> d, exc |-> "None"]
NdArray(d) == [kind |-> "ndarray", dev |-> "cpu", grad |-> FALSE, data |-> d, exc |-> "None"]
Raise(e) == [kind |-> "error", dev |-> "cpu", grad |-> FALSE, data |-> 0, exc |-> e]

\* the attributes hasattr()/method lookup finds on a value
Attrs(v) ==
    CASE v.kind = "tensor" -> {"clone", "cpu", "to", "numpy"}
      [] v.kind = "hostarr" -> {"clone", "numpy"}
      [] OTHER -> {}

hasattr(v, name) == name \in Attrs(v)

\* v.name(...) for the four methods the conversion chains use
Call(v, name) ==
    IF v.kind = "error" THEN v
    ELSE IF ~hasattr(v, name) THEN Raise("AttributeError")
    ELSE CASE name = "clone" -> v
           [] name \in {"cpu", "to"} -> [v EXCEPT !.dev = "cpu"]
           [] name = "numpy" ->
                IF v.grad THEN Raise("RuntimeError")
                ELSE IF v.dev # "cpu" THEN Raise("TypeError")
                ELSE NdArray(v.data)
           [] OTHER -> Raise("AttributeError")

\* v.clone().cpu().numpy()
CloneCpuNumpy(v) == Call(Call(Call(v, "clone"), "cpu"), "numpy")

\* v.to('cpu').clone().numpy()
ToCloneNumpy(v) == Call(Call(Call(v, "to"), "clone"), "numpy")

\* v.clone().numpy()
CloneNumpy(v) == Call(Call(v, "clone"), "numpy")

\* the body of the second loop over pred_3d.items()
ConvertPredField(v) == IF hasattr(v, "to") THEN ToCloneNumpy(v) ELSE CloneNumpy(v)

\* ------------------------------------------------------------------ mappings
\* A dict is a sequence of <<key, value>> items in insertion order.
\* a dict comprehension {k: v.clone().cpu().numpy() for k, v in items}:
\* the converted items, or the first exception raised
RECURSIVE DictComp(_)
DictComp(items) ==
    IF items = <<>> THEN [exc |-> "None", items |-> <<>>]
    ELSE LET c == CloneCpuNumpy(Head(items)[2])
             rest == DictComp(Tail(items))
         IN IF c.kind = "error" THEN [exc |-> c.exc, items |-> <<>>]
            ELSE IF rest.exc # "None" THEN rest
            ELSE [exc |-> "None", items |-> << <<Head(items)[1], c>> >> \o rest.items]

\* the second loop: cpu_pred_3d[k] = ... for every item of pred_3d (each key
\* is already in cpu_pred_3d, so the assignment replaces the value in place)
RECURSIVE OverwriteLoop(_)
OverwriteLoop(items) ==
    IF items = <<>> THEN [exc |-> "None", items |-> <<>>]
    ELSE LET c == ConvertPredField(Head(items)[2])
             rest == OverwriteLoop(Tail(items))
         IN IF c.kind = "error" THEN [exc |-> c.exc, items |-> <<>>]
            ELSE IF rest.exc # "None" THEN rest
            ELSE [exc |-> "None", items |-> << <<Head(items)[1], c>> >> \o rest.items]

\* ------------------------------------------------------------------ samples
\* A sample is a dict with some of the keys pred_pts_seg and eval_ann_info.
SampleKeys == {"pred_pts_seg", "eval_ann_info"}

Absent == <<>>

\* the dict with the given mappings under the two keys (Absent: no such key)
Sample(pred_3d, eval_ann_info) ==
    [k \in {x \in SampleKeys :
               \/ x = "pred_pts_seg" /\ pred_3d # Absent
               \/ x = "eval_ann_info" /\ eval_ann_info # Absent} |->
        IF k = "pred_pts_seg" THEN pred_3d ELSE eval_ann_info]

Field(v) == << <<"instance_mask", v>> >>

\* the samples the batches are built from: two that convert (with different
\* payloads), two that lack a key, four with a value that does not convert
Samples ==
    {Sample(Field(Tensor("cuda", FALSE, 2)), Field(Tensor("cpu", FALSE, 1))),
     Sample(Field(Tensor("cpu", FALSE, 1)), Field(Tensor("cuda", FALSE, 2))),
     Sample(Absent, Field(Tensor("cpu", FALSE, 1))),
     Sample(Field(Tensor("cuda", FALSE, 2)), Absent),
     Sample(Field(Tensor("cpu", TRUE, 1)), Field(Tensor("cpu", FALSE, 1))),
     Sample(Field(Tensor("cuda", FALSE, 2)), Field(NdArray(1))),
     Sample(Field(HostArr(2)), Field(Tensor("cpu", FALSE, 1))),
     Sample(Field(NoneObject), Field(Tensor("cpu", FALSE, 1)))}

Batches == UNION {[1..n -> Samples] : n \in 0..MaxBatch}

\* one iteration of the loop over data_samples
ConvertSample(data_sample) ==
    IF "pred_pts_seg" \notin DOMAIN data_sample THEN
        [exc |-> "KeyError", cpu_pred_3d |-> <<>>, cpu_eval_ann_info |-> <<>>]
    ELSE IF "eval_ann_info" \notin DOMAIN data_sample THEN
        [exc |-> "KeyError", cpu_pred_3d |-> <<>>, cpu_eval_ann_info |-> <<>>]
    ELSE LET pred_3d == data_sample["pred_pts_seg"]
             eval_ann_info == data_sample["eval_ann_info"]
             first == DictComp(pred_3d)
             ann == DictComp(eval_ann_info)
             second == OverwriteLoop(pred_3d)
         IN IF first.exc # "None" THEN
                [exc |-> first.exc, cpu_pred_3d |-> <<>>, cpu_eval_ann_info |-> <<>>]
            ELSE IF ann.exc # "None" THEN
                [exc |-> ann.exc, cpu_pred_3d |-> <<>>, cpu_eval_ann_info |-> <<>>]
            ELSE IF second.exc # "None" THEN
                [exc |-> second.exc, cpu_pred_3d |-> <<>>, cpu_eval_ann_info |-> <<>>]
            ELSE [exc |-> "None", cpu_pred_3d |-> second.items,
                  cpu_eval_ann_info |-> ann.items]

\* the loop over data_samples, from sample i on, with the local lists pred
\* and gt built so far: the lists at the end, or the exception that ended it
RECURSIVE ProcessLoop(_, _, _, _)
ProcessLoop(data_samples, i, pred, gt) ==
    IF i > Len(data_samples) THEN [exc |-> "None", pred |-> pred, gt |-> gt]
    ELSE LET c == ConvertSample(data_samples[i])
         IN IF c.exc # "None" THEN [exc |-> c.exc, pred |-> pred, gt |-> gt]
            ELSE ProcessLoop(data_samples, i + 1, Append(pred, c.cpu_pred_3d),
                             Append(gt, c.cpu_eval_ann_info))

\* ------------------------------------------------------------------ base metric
\* InstanceSeg.add(predictions, groundtruths): appends the pairs, zipped
RECURSIVE add(_, _, _)
add(res, predictions, groundtruths) ==
    IF predictions = <<>> \/ groundtruths = <<>> THEN res
    ELSE add(Append(res, <<Head(predictions), Head(groundtruths)>>),
             Tail(predictions), Tail(groundtruths))

\* InstanceSeg.reset(): clears the results
reset(res) == <<>>

\* ------------------------------------------------------------------ process
\* a mutant: the converted samples are added even when the loop raised
ResultsAfterProcessPartial(res, data_samples) ==
    LET r == ProcessLoop(data_samples, 1, <<>>, <<>>)
    IN add(res, r.pred, r.gt)

\* a mutant: each batch is added in front of the buffer
ResultsAfterProcessPrepend(res, data_samples) ==
    LET r == ProcessLoop(data_samples, 1, <<>>, <<>>)
    IN IF r.exc # "None" THEN res ELSE add(<<>>, r.pred, r.gt) \o res

\* a mutant: only the first sample of a batch is added
ResultsAfterProcessOnePerBatch(res, data_samples) ==
    LET r == ProcessLoop(data_samples, 1, <<>>, <<>>)
    IN IF r.exc # "None" THEN res
       ELSE IF r.pred = <<>> THEN res
       ELSE add(res, <<Head(r.pred)>>, <<Head(r.gt)>>)

\* self.results after process(data_batch, data_samples): self.add(pred, gt)
\* is reached only when the loop ended without an exception
ResultsAfterProcess(res, data_samples) ==
    LET r == ProcessLoop(data_samples, 1, <<>>, <<>>)
    IN IF r.exc # "None" THEN res ELSE add(res, r.pred, r.gt)

\* a mutant: a missing key is caught and reported as no exception
ProcessExcSwallowKeyError(data_samples) ==
    LET e == ProcessLoop(data_samples, 1, <<>>, <<>>).exc
    IN IF e = "KeyError" THEN "None" ELSE e

\* the exception process() propagates ("None": it returned)
ProcessExc(data_samples) == ProcessLoop(data_samples, 1, <<>>, <<>>).exc

\* ------------------------------------------------------------------ evaluate
\* table cells: a text, or a number formatted with f'{ap:.4f}'
Text(s) == [kind |-> "text", s |-> s, whole |-> 0, frac |-> 0]

\* an AP value is an integer number of 1/100000; f'{ap:.4f}' rounds it to
\* four decimals: whole.frac with frac printed on four digits
Fmt(ap) ==
    LET q == (ap + 5) \div 10
    IN [kind |-> "num4", s |-> "", whole |-> q \div 10000, frac |-> q % 10000]

Labels == {"chair", "table"}

\* the per-class entries the computation may give a label (for table also
\* one lacking 'ap')
ClassData(label) ==
    LET full == IF label = "chair"
                THEN [k \in {"ap25%", "ap50%", "ap"} |->
                         CASE k = "ap25%" -> 100000
                           [] k = "ap50%" -> 66666
                           [] OTHER -> 33333]
                ELSE [k \in {"ap25%", "ap50%", "ap"} |->
                         CASE k = "ap25%" -> 50004
                           [] k = "ap50%" -> 12346
                           [] OTHER -> 0]
    IN IF label = "table" THEN {full, [k \in {"ap25%", "ap50%"} |-> full[k]]}
       ELSE {full}

\* the ordered 'classes' mappings: distinct labels, in any order
RECURSIVE ClassLists(_)
ClassLists(n) ==
    IF n = 0 THEN {<<>>}
    ELSE LET shorter == ClassLists(n - 1)
         IN shorter \cup
            {Append(cl, <<l, d>>) :
                cl \in {c \in shorter : Len(c) = n - 1},
                l \in Labels, d \in UNION {ClassData(x) : x \in Labels}}

ClassMaps ==
    {cl \in ClassLists(Cardinality(Labels)) :
        /\ \A i, j \in 1..Len(cl) : i # j => cl[i][1] # cl[j][1]
        /\ \A i \in 1..Len(cl) : cl[i][2] \in ClassData(cl[i][1])}

ReportKeys == {"classes", "all_ap_25%", "all_ap_50%", "all_ap"}

Aggregates == [k \in {"all_ap_25%", "all_ap_50%", "all_ap"} |->
                  CASE k = "all_ap_25%" -> 75002
                    [] k = "all_ap_50%" -> 39506
                    [] OTHER -> 16667]

\* a report over the keys D
Report(D, classes) ==
    [k \in D |-> IF k = "classes" THEN [ord |-> classes, v |-> 0]
                 ELSE [ord |-> <<>>, v |-> Aggregates[k]]]

\* what self.compute() may give back: a report (complete, or lacking a key)
Reports ==
    {Report(ReportKeys, cl) : cl \in ClassMaps}
        \cup {Report(ReportKeys \ {"all_ap"}, cl) : cl \in ClassMaps}
        \cup {Report(ReportKeys \ {"classes"}, <<>>)}

\* the outcomes of self.compute(*args, **kwargs): a report, or an exception
Outcomes ==
    {[exc |-> "None", metrics |-> m] : m \in Reports}
        \cup {[exc |-> "ComputeError", metrics |-> Report({}, <<>>)]}

\* the pass-through arguments of evaluate()
PassThrough ==
    {[args |-> <<>>, kwargs |-> <<>>],
     [args |-> <<1>>, kwargs |-> << <<"size", 2>> >>]}

\* a mutant: the columns are filled in the order ap, ap50%, ap25%
ClassRowSwapped(label, data) ==
    IF {"ap25%", "ap50%", "ap"} \subseteq DOMAIN data
    THEN [exc |-> "None",
          row |-> <<Text(label), Fmt(data["ap"]), Fmt(data["ap50%"]), Fmt(data["ap25%"])>>]
    ELSE [exc |-> "KeyError", row |-> <<>>]

\* one iteration of the loop over metrics['classes'].items()
ClassRow(label, data) ==
    IF {"ap25%", "ap50%", "ap"} \subseteq DOMAIN data
    THEN [exc |-> "None",
          row |-> <<Text(label), Fmt(data["ap25%"]), Fmt(data["ap50%"]), Fmt(data["ap"])>>]
    ELSE [exc |-> "KeyError", row |-> <<>>]

RECURSIVE ClassRows(_)
ClassRows(classes) ==
    IF classes = <<>> THEN [exc |-> "None", rows |-> <<>>]
    ELSE LET r == ClassRow(Head(classes)[1], Head(classes)[2])
             rest == ClassRows(Tail(classes))
         IN IF r.exc # "None" THEN [exc |-> r.exc, rows |-> <<>>]
            ELSE IF rest.exc # "None" THEN rest
            ELSE [exc |-> "None", rows |-> <<r.row>> \o rest.rows]

header == <<Text("classes"), Text("AP_0.25"), Text("AP_0.50"), Text("AP")>>

\* the table evaluate() builds from the report, or the KeyError of a report
\* that lacks a key
RenderTable(metrics) ==
    IF "classes" \notin DOMAIN metrics THEN [exc |-> "KeyError", table |-> <<>>]
    ELSE LET rows == ClassRows(metrics["classes"].ord)
         IN IF rows.exc # "None" THEN [exc |-> rows.exc, table |-> <<>>]
            ELSE IF ~({"all_ap_25%", "all_ap_50%", "all_ap"} \subseteq DOMAIN metrics)
            THEN [exc |-> "KeyError", table |-> <<>>]
            ELSE LET footer == <<Text("Overall"), Fmt(metrics["all_ap_25%"].v),
                                 Fmt(metrics["all_ap_50%"].v), Fmt(metrics["all_ap"].v)>>
                 IN [exc |-> "None", table |-> <<header>> \o rows.rows \o <<footer>>]

\* the message handed to print_log
LogMessage(table) ==
    [leading_newline |-> TRUE, inner_footing_row_border |-> TRUE, rows |-> table]

\* the call self.compute(*args, **kwargs), made on the accumulated results
ComputeCall(args, kwargs, res) ==
    [args |-> args, kwargs |-> kwargs, results |-> res]

\* the exception evaluate() propagates for a compute outcome
EvaluateExc(outcome) ==
    IF outcome.exc # "None" THEN outcome.exc ELSE RenderTable(outcome.metrics).exc

\* a mutant: the results are never reset
ResultsAfterEvaluateNoReset(res, outcome) == res

\* a mutant: the results are reset in a finally clause
ResultsAfterEvaluateFinally(res, outcome) == reset(res)

\* self.results after evaluate(): self.reset() is reached only when neither
\* compute() nor the rendering raised
ResultsAfterEvaluate(res, outcome) ==
    IF EvaluateExc(outcome) # "None" THEN res ELSE reset(res)

\* the calls evaluate() makes, in order
EvaluateSteps(outcome) ==
    IF EvaluateExc(outcome) # "None" THEN <<"compute">>
    ELSE <<"compute", "print_log", "reset">>

\* a mutant: the rendered table is returned
EvaluateReturnTable(outcome) ==
    IF EvaluateExc(outcome) # "None" THEN <<>>
    ELSE <<RenderTable(outcome.metrics).table>>

\* what evaluate() returns (nothing when it raised)
EvaluateReturn(outcome) ==
    IF EvaluateExc(outcome) # "None" THEN <<>> ELSE <<outcome.metrics>>

\* what evaluate() writes to the logger
EvaluateLogged(outcome) ==
    IF "print_log" \in {EvaluateSteps(outcome)[i] : i \in 1..Len(EvaluateSteps(outcome))}
    THEN <<LogMessage(RenderTable(outcome.metrics).table)>>
    ELSE <<>>

\* ------------------------------------------------------------------ constructor
\* Python's None for an optional option
None == "None"

MetaInfos == {"scannet"}
DistBackends == {None, "mpi"}
CollectDevices == {None, "cpu"}
Prefixes == {None, "val"}
OtherOptions == {<<>>, << <<"dist_collect_mode", "unzip">> >>}

\* a mutant: the second warning is in an elif
CtorWarningsElif(collect_device, prefix) ==
    IF collect_device # None THEN <<"collect_device">>
    ELSE IF prefix # None THEN <<"prefix">> ELSE <<>>

\* the warnings.warn calls of __init__, in order, each named by its parameter
CtorWarnings(collect_device, prefix) ==
    (IF collect_device # None THEN <<"collect_device">> ELSE <<>>)
        \o (IF prefix # None THEN <<"prefix">> ELSE <<>>)

\* the keyword arguments of super().__init__(...)
BaseInitKwargs(dataset_meta, dist_backend, collect_device, prefix, kwargs) ==
    << <<"dataset_meta", dataset_meta>>, <<"dist_backend", dist_backend>> >> \o kwargs

\* ------------------------------------------------------------------ state
VARIABLES
    results,    \* the results buffer of the base metric (self._results)
    pending,    \* history: the samples of the completed process() calls since
                \* the buffer was last emptied
    before,     \* history: the buffer when the last call began
    call,       \* the last call: the operation and its inputs
    exc,        \* the exception the last call propagated ("None": it returned)
    ret,        \* what the last call returned (<<>> when it raised)
    logged,     \* the messages the last call wrote with print_log
    trace,      \* the calls evaluate() made during the last call, in order
    warned,     \* the warnings.warn calls of the last call
    baseInit,   \* the keyword arguments the last call gave super().__init__
    computeIn,  \* the self.compute calls of the last call
    afterEvaluate   \* history: the last call began right after an evaluate()
                    \* that returned

vars == <<results, pending, before, call, exc, ret, logged, trace, warned,
          baseInit, computeIn, afterEvaluate>>

NoOutcome == [exc |-> "None", metrics |-> Report({}, <<>>)]
NoCtor == [dataset_meta |-> None, dist_backend |-> None, collect_device |-> None,
           prefix |-> None, kwargs |-> <<>>]
CallRecord(op, data_samples, passed, outcome, ctor) ==
    [op |-> op, data_samples |-> data_samples, args |-> passed.args,
     kwargs |-> passed.kwargs, outcome |-> outcome, ctor |-> ctor]
NoArgs == [args |-> <<>>, kwargs |-> <<>>]

\* InstanceSegMetric(dataset_meta, dist_backend, collect_device, prefix, **kwargs):
\* a new instance, whose base metric starts with no results
Construct(dataset_meta, dist_backend, collect_device, prefix, kwargs) ==
    /\ warned' = CtorWarnings(collect_device, prefix)
    /\ baseInit' = BaseInitKwargs(dataset_meta, dist_backend, collect_device, prefix, kwargs)
    /\ results' = <<>>
    /\ pending' = <<>>
    /\ before' = <<>>
    /\ call' = CallRecord("construct", <<>>, NoArgs, NoOutcome,
                          [dataset_meta |-> dataset_meta, dist_backend |-> dist_backend,
                           collect_device |-> collect_device, prefix |-> prefix,
                           kwargs |-> kwargs])
    /\ exc' = None
    /\ ret' = <<>>
    /\ logged' = <<>>
    /\ trace' = <<>>
    /\ computeIn' = <<>>
    /\ afterEvaluate' = (call.op = "evaluate" /\ exc = None)

Init ==
    \E dataset_meta \in MetaInfos, dist_backend \in DistBackends,
       collect_device \in CollectDevices, prefix \in Prefixes, kwargs \in OtherOptions :
        /\ warned = CtorWarnings(collect_device, prefix)
        /\ baseInit = BaseInitKwargs(dataset_meta, dist_backend, collect_device, prefix, kwargs)
        /\ results = <<>>
        /\ pending = <<>>
        /\ before = <<>>
        /\ call = CallRecord("construct", <<>>, NoArgs, NoOutcome,
                             [dataset_meta |-> dataset_meta, dist_backend |-> dist_backend,
                              collect_device |-> collect_device, prefix |-> prefix,
                              kwargs |-> kwargs])
        /\ exc = None
        /\ ret = <<>>
        /\ logged = <<>>
        /\ trace = <<>>
        /\ computeIn = <<>>
        /\ afterEvaluate = FALSE

\* process(data_batch, data_samples); data_batch is not read
Process(data_samples) ==
    /\ Len(results) + Len(data_samples) <= MaxResults
    /\ results' = ResultsAfterProcess(results, data_samples)
    /\ exc' = ProcessExc(data_samples)
    /\ pending' = IF exc' = None THEN pending \o data_samples ELSE pending
    /\ before' = results
    /\ call' = CallRecord("process", data_samples, NoArgs, NoOutcome, NoCtor)
    /\ ret' = IF exc' = None THEN <<None>> ELSE <<>>
    /\ logged' = <<>>
    /\ trace' = <<>>
    /\ warned' = <<>>
    /\ baseInit' = <<>>
    /\ computeIn' = <<>>
    /\ afterEvaluate' = (call.op = "evaluate" /\ exc = None)

\* evaluate(*args, **kwargs), with the outcome of self.compute
Evaluate(passed, outcome) ==
    /\ computeIn' = <<ComputeCall(passed.args, passed.kwargs, results)>>
    /\ exc' = EvaluateExc(outcome)
    /\ logged' = EvaluateLogged(outcome)
    /\ trace' = EvaluateSteps(outcome)
    /\ results' = ResultsAfterEvaluate(results, outcome)
    /\ ret' = EvaluateReturn(outcome)
    /\ pending' = IF exc' = None THEN <<>> ELSE pending
    /\ before' = results
    /\ call' = CallRecord("evaluate", <<>>, passed, outcome, NoCtor)
    /\ warned' = <<>>
    /\ baseInit' = <<>>
    /\ afterEvaluate' = (call.op = "evaluate" /\ exc = None)

Next ==
    \/ \E dataset_meta \in MetaInfos, dist_backend \in DistBackends,
          collect_device \in CollectDevices, prefix \in Prefixes,
          kwargs \in OtherOptions :
            Construct(dataset_meta, dist_backend, collect_device, prefix, kwargs)
    \/ \E data_samples \in Batches : Process(data_samples)
    \/ \E passed \in PassThrough, outcome \in Outcomes : Evaluate(passed, outcome)

Spec == Init /\ [][Next]_vars

\* ------------------------------------------------------------------ claims
\* the host-memory copy of a mapping: every field as a numpy array of the
\* same payload
HostCopy(items) == [i \in 1..Len(items) |-> <<items[i][1], NdArray(items[i][2].data)>>]

\* the (prediction, ground truth) pairs of samples that have both keys
ExpectedPairs(samples) ==
    [i \in 1..Len(samples) |->
        <<HostCopy(samples[i]["pred_pts_seg"]), HostCopy(samples[i]["eval_ann_info"])>>]

LacksKey(sample) == ~(SampleKeys \subseteq DOMAIN sample)

Steps(t) == {t[i] : i \in 1..Len(t)}

\* C1: a process() call that completes with N samples makes the results
\* buffer exactly N longer than it was when the call began.
C1_ProcessAddsN ==
    (call.op = "process" /\ exc = None)
        => Len(results) = Len(before) + Len(call.data_samples)

C1_Witness ==
    /\ call.op = "process" /\ exc = None
    /\ Len(call.data_samples) = 2
    /\ Len(before) = 1
    /\ Len(results) = 3

\* C2: after evaluate() returns the results buffer is empty, and an
\* evaluate() called right after an evaluate() that returned hands
\* self.compute the empty buffer.
C2_EvaluateResets ==
    /\ (call.op = "evaluate" /\ exc = None) => results = <<>>
    /\ (call.op = "evaluate" /\ afterEvaluate) =>
            /\ before = <<>>
            /\ Len(computeIn) = 1
            /\ computeIn[1].results = <<>>

C2_Witness ==
    /\ call.op = "evaluate" /\ afterEvaluate /\ exc = None
    /\ computeIn[1].results = <<>>
    /\ results = <<>>

\* C3: evaluate(*args, **kwargs) calls self.compute once, with exactly its
\* own positional and keyword arguments, and when it returns it returns the
\* report that call produced.
C3_EvaluateForwardsAndReturns ==
    call.op = "evaluate" =>
        /\ Len(computeIn) = 1
        /\ computeIn[1].args = call.args
        /\ computeIn[1].kwargs = call.kwargs
        /\ exc = None => ret = <<call.outcome.metrics>>

C3_Witness ==
    /\ call.op = "evaluate" /\ exc = None
    /\ call.args = <<1>>
    /\ Len(call.outcome.metrics["classes"].ord) = 2
    /\ ret = <<call.outcome.metrics>>

\* the options super().__init__ must receive: dataset_meta, dist_backend and
\* the other options, and nothing else
ForwardedAsClaimed ==
    /\ baseInit = << <<"dataset_meta", call.ctor.dataset_meta>>,
                     <<"dist_backend", call.ctor.dist_backend>> >> \o call.ctor.kwargs
    /\ \A i \in 1..Len(baseInit) : baseInit[i][1] \notin {"collect_device", "prefix"}

\* C4 as stated: a construction with collect_device or prefix set emits
\* exactly one deprecation warning, one with neither emits none, and the
\* deprecated values are not forwarded.
C4_OneWarningPerCall ==
    call.op = "construct" =>
        /\ Len(warned) =
              IF call.ctor.collect_device # None \/ call.ctor.prefix # None THEN 1 ELSE 0
        /\ ForwardedAsClaimed

\* C4 as amended: a construction emits one deprecation warning for each of
\* collect_device and prefix that is set (two when both are), none when
\* neither is, and the deprecated values are not forwarded.
C4_OneWarningPerSetArgument ==
    call.op = "construct" =>
        /\ Cardinality({i \in 1..Len(warned) : warned[i] = "collect_device"}) =
              IF call.ctor.collect_device # None THEN 1 ELSE 0
        /\ Cardinality({i \in 1..Len(warned) : warned[i] = "prefix"}) =
              IF call.ctor.prefix # None THEN 1 ELSE 0
        /\ Steps(warned) \subseteq {"collect_device", "prefix"}
        /\ ForwardedAsClaimed

C4_Witness ==
    /\ call.op = "construct"
    /\ call.ctor.collect_device # None /\ call.ctor.prefix # None
    /\ Len(warned) = 2
    /\ call.ctor.kwargs # <<>>

\* C5 as stated: a process() call given a sample that lacks pred_pts_seg or
\* eval_ann_info ends with a lookup failure.
C5_MissingKeyIsKeyError ==
    (call.op = "process" /\ \E i \in 1..Len(call.data_samples) : LacksKey(call.data_samples[i]))
        => exc = "KeyError"

\* C5 as amended: a process() call given a sample that lacks one of the keys
\* never returns and adds nothing; it ends with the lookup failure when every
\* sample before the first such sample converted, and otherwise with the
\* exception of the earlier sample's conversion.
C5_MissingKeyPropagates ==
    (call.op = "process" /\ \E i \in 1..Len(call.data_samples) : LacksKey(call.data_samples[i]))
        => LET ds == call.data_samples
               first == CHOOSE i \in 1..Len(ds) :
                            /\ LacksKey(ds[i])
                            /\ \A j \in 1..(i - 1) : ~LacksKey(ds[j])
           IN /\ exc # None
              /\ ret = <<>>
              /\ results = before
              /\ IF \A j \in 1..(first - 1) : ConvertSample(ds[j]).exc = "None"
                 THEN exc = "KeyError"
                 ELSE exc \in {"AttributeError", "RuntimeError", "TypeError"}

C5_Witness ==
    /\ call.op = "process"
    /\ Len(call.data_samples) = 2
    /\ ~LacksKey(call.data_samples[1])
    /\ LacksKey(call.data_samples[2])
    /\ exc = "KeyError"
    /\ before # <<>>

\* C6: a process() call whose samples have both keys and whose field values
\* are all arrays (tensors that need no grad, or arrays without to()) returns
\* and stores the host-memory copy of every field.
C6_EveryArrayConverts ==
    (/\ call.op = "process"
     /\ \A i \in 1..Len(call.data_samples) :
            /\ ~LacksKey(call.data_samples[i])
            /\ \A k \in SampleKeys :
                 \A n \in 1..Len(call.data_samples[i][k]) :
                    /\ call.data_samples[i][k][n][2].kind \in {"tensor", "hostarr", "ndarray"}
                    /\ ~call.data_samples[i][k][n][2].grad)
        => /\ exc = None
           /\ results = before \o ExpectedPairs(call.data_samples)

\* C7: an evaluate() that returns writes exactly one table: the header, one
\* row per class in the report's order (label, ap25%, ap50%, ap), and the
\* Overall row (all_ap_25%, all_ap_50%, all_ap); a call that does not
\* return from evaluate() writes none.
C7_TableRows ==
    /\ (call.op = "evaluate" /\ exc = None) =>
          /\ Len(logged) = 1
          /\ LET t == logged[1].rows
                 m == call.outcome.metrics
                 cl == m["classes"].ord
             IN /\ Len(t) = Len(cl) + 2
                /\ t[1] = <<Text("classes"), Text("AP_0.25"), Text("AP_0.50"), Text("AP")>>
                /\ \A i \in 1..Len(cl) :
                      t[i + 1] = <<Text(cl[i][1]), Fmt(cl[i][2]["ap25%"]),
                                   Fmt(cl[i][2]["ap50%"]), Fmt(cl[i][2]["ap"])>>
                /\ t[Len(t)] = <<Text("Overall"), Fmt(m["all_ap_25%"].v),
                                 Fmt(m["all_ap_50%"].v), Fmt(m["all_ap"].v)>>
    /\ ~(call.op = "evaluate" /\ exc = None) => logged = <<>>

C7_Witness ==
    /\ call.op = "evaluate" /\ exc = None
    /\ Len(call.outcome.metrics["classes"].ord) = 2
    /\ Len(logged) = 1
    /\ Len(logged[1].rows) = 4
    /\ logged[1].rows[2][1] = Text("table")
    /\ logged[1].rows[3][3] =
          [kind |-> "num4", s |-> "", whole |-> 0, frac |-> 6667]

\* C8: the results buffer is the converted (prediction, ground truth) pairs
\* of the samples of the completed process() calls since the last evaluate()
\* that returned (or since construction), in call and sample order; it gets
\* shorter only in an evaluate() that returns, which resets it exactly once.
C8_ResultsAreThePendingPairs ==
    /\ results = ExpectedPairs(pending)
    /\ Len(results) < Len(before) => (call.op = "evaluate" /\ exc = None)
    /\ (call.op = "evaluate" /\ exc = None) =>
          /\ results = <<>>
          /\ Cardinality({i \in 1..Len(trace) : trace[i] = "reset"}) = 1

C8_Witness ==
    /\ call.op = "process" /\ exc = None
    /\ Len(before) = 2
    /\ Len(call.data_samples) = 1
    /\ Len(results) = 3
    /\ results[1] # results[3]
    /\ results[3][1] # results[3][2]

\* C9: a process() call that raises leaves the results buffer as it was when
\* the call began, whatever samples came before the failing one.
C9_FailedProcessAddsNothing ==
    (call.op = "process" /\ exc # None) => results = before

C9_Witness ==
    /\ call.op = "process" /\ exc # None
    /\ Len(call.data_samples) = 2
    /\ ConvertSample(call.data_samples[1]).exc = "None"
    /\ before # <<>>
    /\ results = before

\* C10: evaluate() computes, then writes the log, then resets; when
\* self.compute raises, that exception propagates, nothing is logged and the
\* buffer is not reset; when the report lacks a key the KeyError propagates
\* and the buffer is not reset either.
C10_EvaluateOrderAndFailure ==
    call.op = "evaluate" =>
        /\ trace \in {<<"compute">>, <<"compute", "print_log", "reset">>}
        /\ call.outcome.exc # None =>
              /\ exc = call.outcome.exc
              /\ logged = <<>>
              /\ results = before
        /\ exc # None =>
              /\ results = before
              /\ "reset" \notin Steps(trace)
              /\ ret = <<>>
        /\ (call.outcome.exc = None
              /\ ~(ReportKeys \subseteq DOMAIN call.outcome.metrics)) =>
              exc = "KeyError"

C10_Witness ==
    /\ call.op = "evaluate"
    /\ call.outcome.exc = "ComputeError"
    /\ exc = "ComputeError"
    /\ Len(before) = 2
    /\ results = before
    /\ logged = <<>>
====
